---- MODULE Spec2Model ----
(***************************************************************************)
(* Model of parquet-go's schema.go: building a parquet schema from a Go    *)
(* struct type (SchemaOf), compiling the traversal plan (traverseFuncOf)   *)
(* and running it over a Go value (Schema.Traverse), which hands the sink  *)
(* one (columnIndex, value, repetitionLevel, definitionLevel) entry per    *)
(* leaf value.                                                             *)
(*                                                                         *)
(* Go types, Go values, schema nodes and compiled closures are records of  *)
(* a fixed shape each, so that recursive operators can walk them.          *)
(***************************************************************************)
EXTENDS Integers, Sequences, FiniteSets, TLC

(***************************************************************************)
(* Bounds of the model.                                                    *)
(***************************************************************************)
\* longest slice a Go value holds
MaxLen == 2
\* the sink fails at its FailAt-th call, FailAt in 1..MaxFail (0: never)
MaxFail == 2

\* the values of a leaf field: the zero value and a non-zero one
LeafValues == {0, 1}

(***************************************************************************)
(* Go types (reflect.Type).  k is the reflect.Kind; of holds the element   *)
(* type of a pointer or slice, fields the fields of a struct.              *)
(***************************************************************************)
Int64T == [k |-> "int64", of |-> <<>>, fields |-> <<>>, len |-> 0]
StringT == [k |-> "string", of |-> <<>>, fields |-> <<>>, len |-> 0]
PtrT(t) == [k |-> "ptr", of |-> <<t>>, fields |-> <<>>, len |-> 0]
SliceT(t) == [k |-> "slice", of |-> <<t>>, fields |-> <<>>, len |-> 0]
StructT(fs) == [k |-> "struct", of |-> <<>>, fields |-> fs, len |-> 0]
\* a type of a scalar kind: bool, int, int8 .. int64, uint, uint8 .. uint64,
\* uintptr, float32, float64, string; chan stands for the kinds nodeOf
\* does not know
ScalarT(k) == [k |-> k, of |-> <<>>, fields |-> <<>>, len |-> 0]
\* the array type [n]t
ArrayT(t, n) == [k |-> "array", of |-> <<t>>, fields |-> <<>>, len |-> n]

RECURSIVE JoinOptions(_)
\* the options of a tag written one after the other with commas between;
\* a text is the sequence of its tokens (a word, a digit, "(", ")", ",")
JoinOptions(opts) ==
    IF opts = <<>> THEN <<>>
    ELSE IF Len(opts) = 1 THEN <<opts[1]>>
    ELSE <<opts[1], ",">> \o JoinOptions(Tail(opts))

\* reflect.StructField: Go name, type, the `parquet:"name,tag"` tag
\* (tagName: the text before the first comma, 0 when empty; tag: the text
\* after that comma as tokens), embedded (Anonymous), exported.
\* Names are numbers ordered as the strings they stand for.
Tagged(name, typ, tagName, tag) ==
    [name |-> name, typ |-> typ, tagName |-> tagName, tag |-> tag,
     anonymous |-> FALSE, exported |-> TRUE]
\* a field whose tag lists the one-word options opts
Field(name, typ, tagName, opts) == Tagged(name, typ, tagName, JoinOptions(opts))
Embedded(name, typ) ==
    [name |-> name, typ |-> typ, tagName |-> 0, tag |-> <<>>,
     anonymous |-> TRUE, exported |-> TRUE]
Unexported(name, typ) ==
    [name |-> name, typ |-> typ, tagName |-> 0, tag |-> <<>>,
     anonymous |-> FALSE, exported |-> FALSE]

(***************************************************************************)
(* Go values (reflect.Value).  Invalid is the zero reflect.Value{}.        *)
(***************************************************************************)
Invalid == [k |-> "invalid", n |-> 0, nil |-> TRUE, e |-> <<>>]
Int64V(n) == [k |-> "int64", n |-> n, nil |-> FALSE, e |-> <<>>]
StringV(n) == [k |-> "string", n |-> n, nil |-> FALSE, e |-> <<>>]
NilPtr == [k |-> "ptr", n |-> 0, nil |-> TRUE, e |-> <<>>]
PtrV(v) == [k |-> "ptr", n |-> 0, nil |-> FALSE, e |-> <<v>>]
NilSlice == [k |-> "slice", n |-> 0, nil |-> TRUE, e |-> <<>>]
SliceV(s) == [k |-> "slice", n |-> 0, nil |-> FALSE, e |-> s]
StructV(fs) == [k |-> "struct", n |-> 0, nil |-> FALSE, e |-> fs]

IsValid(v) == v.k # "invalid"
\* reflect.Value.Len of a slice
LenOf(v) == Len(v.e)
\* reflect.Value.Elem of a non-nil pointer
Elem(v) == v.e[1]
\* reflect.Value.Index, i counted from 0
IndexOf(v, i) == v.e[i + 1]

RECURSIVE IsZero(_)
\* reflect.Value.IsZero
IsZero(v) ==
    CASE v.k = "int64" -> v.n = 0
      [] v.k = "string" -> v.n = 0
      [] v.k = "ptr" -> v.nil
      [] v.k = "slice" -> v.nil
      [] v.k = "struct" -> \A i \in 1..Len(v.e) : IsZero(v.e[i])
      [] OTHER -> FALSE

RECURSIVE FieldByIndex(_, _)
\* reflect.Value.FieldByIndex: index is a path of field positions from 0
FieldByIndex(base, index) ==
    IF index = <<>> THEN base
    ELSE FieldByIndex(base.e[Head(index) + 1], Tail(index))

(***************************************************************************)
(* Schema nodes (the Node interface).  card is the cardinality, exactly    *)
(* one of required / optional / repeated; kind is leaf, group (a           *)
(* structNode with its sorted fields) or list (the LIST logical type       *)
(* around its element node).  A structField pairs a child node with its    *)
(* resolved name and the reflect index path of the Go field.               *)
(***************************************************************************)
\* Leaf(type), Int(64), String(): a required leaf of that physical type
Leaf(typ) ==
    [card |-> "required", kind |-> "leaf", typ |-> typ,
     fields |-> <<>>, elem |-> <<>>,
     logical |-> [name |-> "", scale |-> 0, precision |-> 0],
     encodings |-> <<>>, codecs |-> <<>>]
\* the struct { fields, names } literal of structNodeOf
StructNode(fields) ==
    [card |-> "required", kind |-> "group", typ |-> "group",
     fields |-> fields, elem |-> <<>>,
     logical |-> [name |-> "", scale |-> 0, precision |-> 0],
     encodings |-> <<>>, codecs |-> <<>>]
\* List(of): group "list" { repeated group "element" = of }
ListNode(of) ==
    [card |-> "required", kind |-> "list", typ |-> "group",
     fields |-> <<>>, elem |-> <<of>>,
     logical |-> [name |-> "list", scale |-> 0, precision |-> 0],
     encodings |-> <<>>, codecs |-> <<>>]
\* what nodeOf's final panic leaves: no node
PanicNode ==
    [card |-> "required", kind |-> "panic", typ |-> "panic",
     fields |-> <<>>, elem |-> <<>>,
     logical |-> [name |-> "", scale |-> 0, precision |-> 0],
     encodings |-> <<>>, codecs |-> <<>>]
\* Int(bits), Uint(bits): an integer leaf on the 32- or 64-bit physical
\* type, bits kept in scale
IntNode(name, bits) ==
    [Leaf(IF bits = 64 THEN "int64" ELSE "int32") EXCEPT
        !.logical = [name |-> name, scale |-> bits, precision |-> 0]]
\* Enum(), UUID(): leaves carrying that logical type
Enum == [Leaf("string") EXCEPT !.logical.name = "enum"]
UUID == [Leaf("fixed16") EXCEPT !.logical.name = "uuid"]
\* Decimal(scale, precision, baseType)
Decimal(scale, precision, baseType) ==
    [Leaf(baseType) EXCEPT
        !.logical = [name |-> "decimal", scale |-> scale,
                     precision |-> precision]]
\* Compressed(node, codecs...), Encoded(node, encodings...)
Compressed(node, codecs) == [node EXCEPT !.codecs = codecs]
Encoded(node, encodings) == [node EXCEPT !.encodings = encodings]
\* the cardinality wrappers: the wrapper answers Optional/Repeated/Required
\* itself and passes every other question to the node it wraps
Optional(node) == [node EXCEPT !.card = "optional"]
Repeated(node) == [node EXCEPT !.card = "repeated"]
Required(node) == [node EXCEPT !.card = "required"]
isLeaf(node) == node.kind = "leaf"
\* node.ChildByName("list").ChildByName("element") of a LIST node
ListElement(node) == node.elem[1]

\* structNode.ChildNames
ChildNames(node) == [i \in 1..Len(node.fields) |-> node.fields[i].name]
\* structNode.NumChildren
NumChildren(node) == Len(node.fields)

\* structNode.indexOf: sort.Search for the first name >= name, counted
\* from 0; -1 when that position does not hold name
indexOf(node, name) ==
    LET names == ChildNames(node)
        n == Len(names)
        ge == {i \in 0..(n - 1) : names[i + 1] >= name}
        i == IF ge = {} THEN n ELSE CHOOSE x \in ge : \A y \in ge : x <= y
    IN  IF i = n \/ names[i + 1] # name THEN -1 ELSE i
\* structNode.ChildByIndex, index counted from 0
ChildByIndex(node, index) == node.fields[index + 1].node
\* structNode.ChildByName
ChildByName(node, name) == ChildByIndex(node, indexOf(node, name))

(***************************************************************************)
(* Schema builder: structNodeOf, structFieldsOf, makeStructField, nodeOf.  *)
(***************************************************************************)
RECURSIVE appendStructFields(_, _, _, _)
\* the fields of t from position i on, embedded structs flattened in
\* place, each with its index path; unexported fields are skipped
appendStructFields(t, fields, index, i) ==
    IF i >= Len(t.fields) THEN fields
    ELSE LET f == t.fields[i + 1]
             fieldIndex == Append(index, i)
             more == IF f.anonymous
                        THEN appendStructFields(f.typ, fields, fieldIndex, 0)
                     ELSE IF f.exported
                        THEN Append(fields,
                                [name |-> f.name, typ |-> f.typ,
                                 tagName |-> f.tagName, tag |-> f.tag,
                                 index |-> fieldIndex])
                     ELSE fields
         IN  appendStructFields(t, more, index, i + 1)

\* the renaming loop of structFieldsOf: a name in the tag replaces f.Name
ResolveName(f) == IF f.tagName # 0 THEN [f EXCEPT !.name = f.tagName] ELSE f

RECURSIVE SortByName(_)
\* sort.Slice(fields, Name <): ascending by resolved name
SortByName(fields) ==
    IF fields = <<>> THEN <<>>
    ELSE LET least == CHOOSE i \in 1..Len(fields) :
                          \A j \in 1..Len(fields) :
                              /\ fields[i].name <= fields[j].name
                              /\ fields[j].name = fields[i].name => i <= j
             rest == [j \in 1..(Len(fields) - 1) |->
                          IF j < least THEN fields[j] ELSE fields[j + 1]]
         IN  <<fields[least]>> \o SortByName(rest)

structFieldsOf(t) ==
    LET fields == appendStructFields(t, <<>>, <<>>, 0)
    IN  SortByName([i \in 1..Len(fields) |-> ResolveName(fields[i])])

RECURSIVE nodeOf(_)
RECURSIVE structNodeOf(_)
RECURSIVE makeStructField(_)
RECURSIVE TagOptions(_, _, _)

\* the position of the first token c in s, 0 when there is none
IndexByte(s, c) ==
    LET at == {i \in 1..Len(s) : s[i] = c}
    IN  IF at = {} THEN 0 ELSE CHOOSE i \in at : \A j \in at : i <= j

\* split: the text before the first comma, and the text after it
split(s) ==
    LET i == IndexByte(s, ",")
    IN  IF i = 0 THEN [head |-> s, tail |-> <<>>]
        ELSE [head |-> SubSeq(s, 1, i - 1), tail |-> SubSeq(s, i + 1, Len(s))]

\* splitOptionArgs: the text before the first "(", and the text from it on;
\* "()" when there is none
splitOptionArgs(s) ==
    LET i == IndexByte(s, "(")
    IN  IF i = 0 THEN [option |-> s, args |-> <<"(", ")">>]
        ELSE [option |-> SubSeq(s, 1, i - 1), args |-> SubSeq(s, i, Len(s))]

RECURSIVE Split(_, _)
\* strings.Split(s, sep): the parts of s between the separators
Split(s, sep) ==
    LET i == IndexByte(s, sep)
    IN  IF i = 0 THEN <<s>>
        ELSE <<SubSeq(s, 1, i - 1)>> \o Split(SubSeq(s, i + 1, Len(s)), sep)

Digits == {"0", "1", "3"}
DigitValue(d) == CASE d = "0" -> 0 [] d = "1" -> 1 [] d = "3" -> 3

RECURSIVE ParseInt(_)
\* strconv.ParseInt(s, 10, 32): err unless s is one or more digits
ParseInt(s) ==
    IF s = <<>> \/ \E i \in 1..Len(s) : s[i] \notin Digits
       THEN [err |-> TRUE, n |-> 0]
    ELSE IF Len(s) = 1 THEN [err |-> FALSE, n |-> DigitValue(s[1])]
    ELSE [err |-> FALSE,
          n |-> 10 * ParseInt(SubSeq(s, 1, Len(s) - 1)).n + DigitValue(s[Len(s)])]

\* parseDecimalArgs: args is "(" scale "," precision ")"
parseDecimalArgs(args) ==
    LET failed == [err |-> TRUE, scale |-> 0, precision |-> 0]
        hasPrefix == Len(args) >= 1 /\ args[1] = "("
        hasSuffix == Len(args) >= 1 /\ args[Len(args)] = ")"
        trimmed == LET t == Tail(args)
                   IN  IF t # <<>> /\ t[Len(t)] = ")"
                          THEN SubSeq(t, 1, Len(t) - 1) ELSE t
        parts == Split(trimmed, ",")
    IN  IF ~hasPrefix \/ ~hasSuffix THEN failed
        ELSE IF Len(parts) # 2 THEN failed
        ELSE IF ParseInt(parts[1]).err \/ ParseInt(parts[2]).err THEN failed
        ELSE [err |-> FALSE, scale |-> ParseInt(parts[1]).n,
              precision |-> ParseInt(parts[2]).n]

\* what a throw* call of makeStructField leaves of the loop state
Throw(st) == [st EXCEPT !.failed = TRUE]
\* setNode
SetNode(st, node) ==
    IF st.node # <<>> THEN Throw(st) ELSE [st EXCEPT !.node = <<node>>]
\* setOptional
SetOptional(st) ==
    IF st.optional THEN Throw(st) ELSE [st EXCEPT !.optional = TRUE]
\* setList
SetList(st) ==
    IF st.failed \/ st.list THEN Throw(st) ELSE [st EXCEPT !.list = TRUE]
\* setEncoding
SetEncoding(st, enc) ==
    IF \E i \in 1..Len(st.encodings) : st.encodings[i] = enc THEN Throw(st)
    ELSE [st EXCEPT !.encodings = Append(@, enc)]
\* setCompression
SetCompression(st, codec) ==
    IF \E i \in 1..Len(st.codecs) : st.codecs[i] = codec THEN Throw(st)
    ELSE [st EXCEPT !.codecs = Append(@, codec)]

\* a delta case that lets every integer kind through
DeltaKinds_EveryInteger ==
    {"int", "int8", "int16", "int32", "int64",
     "uint", "uint8", "uint16", "uint32", "uint64", "uintptr"}

\* the field kinds the delta case lets through
DeltaKinds == {"int", "int32", "int64", "uint", "uint32", "uint64"}

\* the uuid case: UUID() on a string, nothing to set on a [16]byte array
UuidOption(f, st) ==
    CASE f.typ.k = "string" -> SetNode(st, UUID)
      [] f.typ.k = "array" ->
             IF f.typ.of[1].k # "uint8" \/ f.typ.len # 16 THEN Throw(st)
             ELSE st
      [] OTHER -> Throw(st)

\* the decimal case
DecimalOption(f, args, st) ==
    LET parsed == parseDecimalArgs(args)
    IN  IF parsed.err THEN Throw(st)
        ELSE CASE f.typ.k = "int32" ->
                      SetNode(st, Decimal(parsed.scale, parsed.precision, "int32"))
               [] f.typ.k = "int64" ->
                      SetNode(st, Decimal(parsed.scale, parsed.precision, "int64"))
               [] OTHER -> Throw(st)

\* the option loop of makeStructField over the text left in tag; st is
\* (field.Node or none, optional, list, encodings, codecs, failed)
TagOptions(f, tag, st) ==
    IF tag = <<>> \/ st.failed THEN st
    ELSE LET piece == split(tag)
             parts == splitOptionArgs(piece.head)
             option == parts.option
             next ==
                 CASE option = <<"optional">> -> SetOptional(st)
                   [] option = <<"snappy">> -> SetCompression(st, "snappy")
                   [] option = <<"gzip">> -> SetCompression(st, "gzip")
                   [] option = <<"plain">> -> SetEncoding(st, "plain")
                   [] option = <<"dict">> -> SetEncoding(st, "dict")
                   [] option = <<"delta">> ->
                          IF f.typ.k \in DeltaKinds THEN SetEncoding(st, "delta")
                          ELSE Throw(st)
                   [] option = <<"list">> ->
                          IF f.typ.k = "slice"
                             THEN SetList(SetNode(st, nodeOf(f.typ.of[1])))
                          ELSE Throw(st)
                   [] option = <<"enum">> ->
                          IF f.typ.k = "string" THEN SetNode(st, Enum)
                          ELSE Throw(st)
                   [] option = <<"uuid">> -> UuidOption(f, st)
                   [] option = <<"decimal">> -> DecimalOption(f, parts.args, st)
                   [] OTHER -> Throw(st)
         IN  TagOptions(f, piece.tail, next)

\* makeStructField: the node of one field, with its codecs and encodings,
\* list-wrapped and then optional-wrapped as its tag asks; PanicNode where
\* the code panics
makeStructField(f) ==
    LET st == TagOptions(f, f.tag,
                  [node |-> <<>>, optional |-> FALSE, list |-> FALSE,
                   encodings |-> <<>>, codecs |-> <<>>, failed |-> FALSE])
        base == IF st.node = <<>> THEN nodeOf(f.typ) ELSE st.node[1]
        encoded == Encoded(Compressed(base, st.codecs), st.encodings)
        listed == IF st.list THEN ListNode(encoded) ELSE encoded
        node == IF st.optional THEN Optional(listed) ELSE listed
    IN  [name |-> f.name,
         node |-> IF st.failed \/ base.kind = "panic" THEN PanicNode ELSE node,
         index |-> f.index]

structNodeOf(t) ==
    LET fields == structFieldsOf(t)
    IN  StructNode([i \in 1..Len(fields) |-> makeStructField(fields[i])])

nodeOf(t) ==
    CASE t.k = "bool" -> Leaf("boolean")
      [] t.k \in {"int", "int64"} -> IntNode("int", 64)
      [] t.k = "int8" -> IntNode("int", 8)
      [] t.k = "int16" -> IntNode("int", 16)
      [] t.k = "int32" -> IntNode("int", 32)
      [] t.k \in {"uint", "uintptr", "uint64"} -> IntNode("uint", 64)
      [] t.k = "uint8" -> IntNode("uint", 8)
      [] t.k = "uint16" -> IntNode("uint", 16)
      [] t.k = "uint32" -> IntNode("uint", 32)
      [] t.k = "float32" -> Leaf("float")
      [] t.k = "float64" -> Leaf("double")
      [] t.k = "string" -> Leaf("string")
      [] t.k = "ptr" -> Optional(nodeOf(t.of[1]))
      [] t.k = "struct" -> structNodeOf(t)
      [] t.k = "slice" -> Repeated(nodeOf(t.of[1]))
      [] t.k = "array" /\ t.of[1].k = "uint8" /\ t.len = 16 -> UUID
      [] OTHER -> PanicNode

(***************************************************************************)
(* Traversal-plan compiler.  A compiled traverseFunc is a closure: op says *)
(* which func literal it is, columnIndex and funcs/index are the variables *)
(* it captured (the leaf's column, the inner traverse funcs, and for a     *)
(* group the index path valueByIndex uses for each child).                 *)
(***************************************************************************)
Closure(op, columnIndex, funcs, index) ==
    [op |-> op, columnIndex |-> columnIndex, funcs |-> funcs, index |-> index]

\* a leaf that hands its own column index on: every leaf gets the same one
NextColumn_Same(columnIndex) == columnIndex

\* the column index traverseFuncOfLeaf returns: the next free column
NextColumn(columnIndex) == columnIndex + 1

RECURSIVE traverseFuncOf(_, _)
RECURSIVE traverseFuncOfOptional(_, _)
RECURSIVE traverseFuncOfRepeated(_, _)
RECURSIVE traverseFuncOfRequired(_, _)
RECURSIVE traverseFuncOfGroup(_, _)
RECURSIVE GroupFuncs(_, _, _, _)

\* every traverseFuncOf* returns (next column index, closure)
traverseFuncOfLeaf(columnIndex, node) ==
    [next |-> NextColumn(columnIndex),
     f |-> Closure("leaf", columnIndex, <<>>, <<>>)]

\* the loop of traverseFuncOfGroup over names[i..], i counted from 0
GroupFuncs(columnIndex, node, funcs, i) ==
    IF i >= Len(ChildNames(node)) THEN [next |-> columnIndex, funcs |-> funcs]
    ELSE LET r == traverseFuncOf(columnIndex,
                                 ChildByName(node, ChildNames(node)[i + 1]))
         IN  GroupFuncs(r.next, node, Append(funcs, r.f), i + 1)

traverseFuncOfGroup(columnIndex, node) ==
    LET r == GroupFuncs(columnIndex, node, <<>>, 0)
    IN  [next |-> r.next,
         f |-> Closure("group", 0, r.funcs,
                       [i \in 1..Len(node.fields) |-> node.fields[i].index])]

traverseFuncOfRequired(columnIndex, node) ==
    IF isLeaf(node) THEN traverseFuncOfLeaf(columnIndex, node)
    ELSE traverseFuncOfGroup(columnIndex, node)

traverseFuncOfOptional(columnIndex, node) ==
    LET r == traverseFuncOf(columnIndex, Required(node))
    IN  [next |-> r.next, f |-> Closure("optional", 0, <<r.f>>, <<>>)]

traverseFuncOfRepeated(columnIndex, node) ==
    LET r == traverseFuncOf(columnIndex, Required(node))
    IN  [next |-> r.next, f |-> Closure("repeated", 0, <<r.f>>, <<>>)]

traverseFuncOf(columnIndex, node) ==
    IF node.card = "optional" THEN traverseFuncOfOptional(columnIndex, node)
    ELSE IF node.kind = "list"
        THEN traverseFuncOf(columnIndex, Repeated(ListElement(node)))
    ELSE IF node.card = "repeated"
        THEN traverseFuncOfRepeated(columnIndex, node)
    ELSE traverseFuncOfRequired(columnIndex, node)

makeTraverseFunc(node) ==
    IF NumChildren(node) = 0 THEN Closure("message{}", 0, <<>>, <<>>)
    ELSE traverseFuncOf(0, node).f

\* newSchema: the root node and its compiled plan
newSchema(root) == [root |-> root, traverse |-> makeTraverseFunc(root)]

\* SchemaOf / namedSchemaOf of a struct type
SchemaOf(t) == newSchema(structNodeOf(t))

(***************************************************************************)
(* Traversal executor.  levels is the (repetitionDepth, repetitionLevel,   *)
(* definitionLevel) triple passed by value down the calls.  The sink is    *)
(* the caller's Traversal: it records every call and returns an error at   *)
(* its failAt-th call (never when failAt = 0); err 0 is nil, any other     *)
(* number names the error.  A closure call returns the sink's calls so far *)
(* and its error.                                                          *)
(***************************************************************************)
ZeroLevels ==
    [repetitionDepth |-> 0, repetitionLevel |-> 0, definitionLevel |-> 0]

\* traversal.Traverse(columnIndex, v) on the recording sink
SinkTraverse(calls, failAt, columnIndex, v) ==
    LET err == IF Len(calls) + 1 = failAt THEN failAt ELSE 0
    IN  [calls |-> Append(calls,
                      [columnIndex |-> columnIndex, null |-> v.null,
                       val |-> v.val, repetitionLevel |-> v.repetitionLevel,
                       definitionLevel |-> v.definitionLevel, err |-> err]),
         err |-> err]

\* the Value the leaf closure builds: makeValue of a valid value, the null
\* Value{} otherwise, stamped with the two levels
LeafValue(levels, value) ==
    [null |-> ~IsValid(value),
     val |-> IF IsValid(value) THEN value.n ELSE 0,
     repetitionLevel |-> levels.repetitionLevel,
     definitionLevel |-> levels.definitionLevel]

\* an optional closure that forgets levels.definitionLevel++
OptionalStep_NoLevel(levels, value) ==
    IF IsValid(value)
       THEN IF IsZero(value)
               THEN [levels |-> levels, value |-> Invalid]
            ELSE [levels |-> levels,
                  value |-> IF value.k = "ptr" THEN Elem(value) ELSE value]
    ELSE [levels |-> levels, value |-> value]

\* an optional closure that tests only for a nil pointer, not for IsZero
OptionalStep_ZeroPresent(levels, value) ==
    IF IsValid(value)
       THEN IF value.k = "ptr" /\ value.nil
               THEN [levels |-> levels, value |-> Invalid]
            ELSE [levels |-> [levels EXCEPT !.definitionLevel = @ + 1],
                  value |-> IF value.k = "ptr" THEN Elem(value) ELSE value]
    ELSE [levels |-> levels, value |-> value]

\* an optional closure that counts the placeholder it was handed as present
OptionalStep_InvalidCounted(levels, value) ==
    IF IsValid(value) /\ IsZero(value)
       THEN [levels |-> levels, value |-> Invalid]
    ELSE [levels |-> [levels EXCEPT !.definitionLevel = @ + 1],
          value |-> IF value.k = "ptr" THEN Elem(value) ELSE value]

\* the pre-step of the optional closure: (levels, value) handed on
OptionalStep(levels, value) ==
    IF IsValid(value)
       THEN IF IsZero(value)
               THEN [levels |-> levels, value |-> Invalid]
            ELSE [levels |-> [levels EXCEPT !.definitionLevel = @ + 1],
                  value |-> IF value.k = "ptr" THEN Elem(value) ELSE value]
    ELSE [levels |-> levels, value |-> value]

\* a repeated closure that counts a nil slice as defined
RepeatedEnter_NilDefined(levels, value) ==
    IF IsValid(value)
       THEN [levels EXCEPT !.repetitionDepth = @ + 1,
                           !.definitionLevel = @ + 1]
    ELSE levels

\* the pre-step of the repeated closure: levels after `if value.IsValid()`
RepeatedEnter(levels, value) ==
    IF IsValid(value)
       THEN [levels EXCEPT
                !.repetitionDepth = @ + 1,
                !.definitionLevel = IF ~value.nil THEN @ + 1 ELSE @]
    ELSE levels

\* numValues of the repeated closure
NumValues(value) == IF IsValid(value) THEN LenOf(value) ELSE 0

\* a repeated closure that leaves repetitionLevel as it was
RepeatedAdvance_Keep(levels) == levels

\* levels.repetitionLevel = levels.repetitionDepth, after each element
RepeatedAdvance(levels) ==
    [levels EXCEPT !.repetitionLevel = levels.repetitionDepth]

\* the loop condition of the repeated closure
RepeatedContinues(i, numValues, err) == i < numValues /\ err = 0

\* a group closure that drops the error of a child
GroupReturns_Never(err) == FALSE

\* the `err != nil` test of the group closure's loop
GroupReturns(err) == err # 0

\* valueAt of the group closure: the child's sub-value, or base itself
\* when base is not valid
ValueAt(f, base, i) ==
    IF ~IsValid(base) THEN base ELSE FieldByIndex(base, f.index[i + 1])

RECURSIVE Call(_, _, _, _, _)
RECURSIVE RepeatedLoop(_, _, _, _, _, _, _)
RECURSIVE GroupLoop(_, _, _, _, _, _)

RECURSIVE RepeatedLoop_AdvanceFirst(_, _, _, _, _, _, _)
\* a repeated closure that sets repetitionLevel before each element, the
\* first one too
RepeatedLoop_AdvanceFirst(f, levels, value, calls, failAt, i, err) ==
    IF ~RepeatedContinues(i, NumValues(value), err)
       THEN [calls |-> calls, err |-> err]
    ELSE LET r == Call(f.funcs[1], RepeatedAdvance(levels), IndexOf(value, i),
                       calls, failAt)
         IN  RepeatedLoop_AdvanceFirst(f, levels, value, r.calls, failAt,
                                       i + 1, r.err)

\* `for i := 0; i < numValues && err == nil; i++`, from i on
RepeatedLoop(f, levels, value, calls, failAt, i, err) ==
    IF ~RepeatedContinues(i, NumValues(value), err)
       THEN [calls |-> calls, err |-> err]
    ELSE LET r == Call(f.funcs[1], levels, IndexOf(value, i), calls, failAt)
         IN  RepeatedLoop(f, RepeatedAdvance(levels), value, r.calls, failAt,
                          i + 1, r.err)

RECURSIVE GroupLoop_Reversed(_, _, _, _, _, _)
\* a group closure that walks its children from the last to the first
GroupLoop_Reversed(f, levels, value, calls, failAt, i) ==
    IF i >= Len(f.funcs) THEN [calls |-> calls, err |-> 0]
    ELSE LET k == Len(f.funcs) - 1 - i
             r == Call(f.funcs[k + 1], levels, ValueAt(f, value, k), calls,
                       failAt)
         IN  IF GroupReturns(r.err) THEN r
             ELSE GroupLoop_Reversed(f, levels, value, r.calls, failAt, i + 1)

RECURSIVE GroupLoop_SharedLevels(_, _, _, _, _, _)
\* a group closure whose children write to the levels of the group: the
\* next child starts from the levels the last leaf call was made at
GroupLoop_SharedLevels(f, levels, value, calls, failAt, i) ==
    IF i >= Len(f.funcs) THEN [calls |-> calls, err |-> 0]
    ELSE LET r == Call(f.funcs[i + 1], levels, ValueAt(f, value, i), calls,
                       failAt)
             last == r.calls[Len(r.calls)]
             left == IF Len(r.calls) = Len(calls) THEN levels
                     ELSE [levels EXCEPT
                              !.repetitionLevel = last.repetitionLevel,
                              !.definitionLevel = last.definitionLevel]
         IN  IF GroupReturns(r.err) THEN r
             ELSE GroupLoop_SharedLevels(f, left, value, r.calls, failAt, i + 1)

\* `for i, f := range funcs`, from i on
GroupLoop(f, levels, value, calls, failAt, i) ==
    IF i >= Len(f.funcs) THEN [calls |-> calls, err |-> 0]
    ELSE LET r == Call(f.funcs[i + 1], levels, ValueAt(f, value, i), calls,
                       failAt)
         IN  IF GroupReturns(r.err) THEN r
             ELSE GroupLoop(f, levels, value, r.calls, failAt, i + 1)

\* calling a compiled traverseFunc
Call(f, levels, value, calls, failAt) ==
    CASE f.op = "leaf" ->
             SinkTraverse(calls, failAt, f.columnIndex,
                          LeafValue(levels, value))
      [] f.op = "optional" ->
             LET s == OptionalStep(levels, value)
             IN  Call(f.funcs[1], s.levels, s.value, calls, failAt)
      [] f.op = "repeated" ->
             LET entered == RepeatedEnter(levels, value)
             IN  IF NumValues(value) = 0
                    THEN Call(f.funcs[1], entered, Invalid, calls, failAt)
                 ELSE RepeatedLoop(f, entered, value, calls, failAt, 0, 0)
      [] f.op = "group" -> GroupLoop(f, levels, value, calls, failAt, 0)
      [] OTHER -> [calls |-> calls, err |-> 0]

\* Schema.Traverse(value, traversal): the calls the sink received and the
\* error returned
SchemaTraverse(s, value, failAt) ==
    LET v == IF value.k = "ptr"
                THEN IF value.nil THEN Invalid ELSE Elem(value)
             ELSE value
    IN  Call(s.traverse, ZeroLevels, v, <<>>, failAt)

(***************************************************************************)
(* The same executor one sink call at a time, for calls that run side by   *)
(* side.  A goroutine inside Schema.Traverse is the stack of the closure   *)
(* calls that have not returned: a frame holds the closure, the levels and *)
(* the value it was called with (its own copies: levels is passed by       *)
(* value) and the index its loop stands at.  The frame on top is the leaf  *)
(* closure about to call the sink.  Optional closures, and repeated ones   *)
(* on the placeholder path, return what their callee returns and leave no  *)
(* frame.                                                                  *)
(***************************************************************************)
Frame(f, levels, value, i) == [f |-> f, levels |-> levels, value |-> value, i |-> i]

Pop(stack) == SubSeq(stack, 1, Len(stack) - 1)

RECURSIVE Descend(_, _, _, _)
RECURSIVE Resume(_)

\* f(levels, value, traversal) is called under stack: the stack when the
\* next leaf closure is about to call the sink, or <<>> when the calls
\* have all returned
Descend(f, levels, value, stack) ==
    CASE f.op = "leaf" -> Append(stack, Frame(f, levels, value, 0))
      [] f.op = "optional" ->
             LET s == OptionalStep(levels, value)
             IN  Descend(f.funcs[1], s.levels, s.value, stack)
      [] f.op = "repeated" ->
             LET entered == RepeatedEnter(levels, value)
             IN  IF NumValues(value) = 0
                    THEN Descend(f.funcs[1], entered, Invalid, stack)
                 ELSE Descend(f.funcs[1], entered, IndexOf(value, 0),
                              Append(stack, Frame(f, entered, value, 0)))
      [] f.op = "group" /\ Len(f.funcs) > 0 ->
             Descend(f.funcs[1], levels, ValueAt(f, value, 0),
                     Append(stack, Frame(f, levels, value, 0)))
      [] OTHER -> Resume(stack)

\* the callee of the top frame returned nil: the loop of that frame goes
\* on, or the frame returns in turn
Resume(stack) ==
    IF stack = <<>> THEN <<>>
    ELSE LET top == stack[Len(stack)]
             i == top.i + 1
         IN  IF top.f.op = "repeated"
                THEN LET levels == RepeatedAdvance(top.levels)
                     IN  IF RepeatedContinues(i, NumValues(top.value), 0)
                            THEN Descend(top.f.funcs[1], levels,
                                         IndexOf(top.value, i),
                                         Append(Pop(stack),
                                                Frame(top.f, levels, top.value, i)))
                         ELSE Resume(Pop(stack))
             ELSE IF i < Len(top.f.funcs)
                THEN Descend(top.f.funcs[i + 1], top.levels,
                             ValueAt(top.f, top.value, i),
                             Append(Pop(stack),
                                    Frame(top.f, top.levels, top.value, i)))
             ELSE Resume(Pop(stack))

\* a Traverse call that has not begun
Idle(value) ==
    [value |-> value, pc |-> "idle", stack |-> <<>>, calls |-> <<>>,
     result |-> 0]

\* Schema.Traverse(value, traversal) begins, up to its first sink call
Begin(s, call) ==
    LET v == IF call.value.k = "ptr"
                THEN IF call.value.nil THEN Invalid ELSE Elem(call.value)
             ELSE call.value
        stack == Descend(s.traverse, ZeroLevels, v, <<>>)
    IN  [call EXCEPT !.stack = stack,
                     !.pc = IF stack = <<>> THEN "done" ELSE "running"]

\* the leaf closure on top of the stack calls the sink, and the call
\* runs on to its next sink call or to its end
Advance(call) ==
    LET top == call.stack[Len(call.stack)]
        r == SinkTraverse(call.calls, 0, top.f.columnIndex,
                          LeafValue(top.levels, top.value))
        stack == IF GroupReturns(r.err) THEN <<>> ELSE Resume(Pop(call.stack))
    IN  [call EXCEPT !.calls = r.calls, !.result = r.err, !.stack = stack,
                     !.pc = IF stack = <<>> THEN "done" ELSE "running"]

\* calls whose levels are one variable of the Schema: the step of call p
\* leaves its levels in the leaf frame of every other running call
StepCall_SharedLevels(running, p) ==
    LET mine == running[p].stack[Len(running[p].stack)].levels
    IN  [q \in DOMAIN running |->
            IF q = p THEN Advance(running[p])
            ELSE IF running[q].pc = "running"
               THEN [running[q] EXCEPT !.stack[Len(running[q].stack)].levels = mine]
            ELSE running[q]]

\* one step of call p among the calls that run side by side: nothing of
\* another call is read or written
StepCall(running, p) == [running EXCEPT ![p] = Advance(running[p])]

(***************************************************************************)
(* The struct types the model is run on, and the Go values of a type.      *)
(* Field names are numbers; a field is declared required (T), optional by  *)
(* tag, optional by pointer, repeated (a slice), list (a slice with the    *)
(* list tag) or optional list.                                             *)
(***************************************************************************)
Req(name, t) == Field(name, t, 0, <<>>)
Opt(name, t) == Field(name, t, 0, <<"optional">>)
Ptr(name, t) == Field(name, PtrT(t), 0, <<>>)
Rep(name, t) == Field(name, SliceT(t), 0, <<>>)
Lst(name, t) == Field(name, SliceT(t), 0, <<"list">>)
OptLst(name, t) == Field(name, SliceT(t), 0, <<"list", "optional">>)
Variants(name, t) ==
    {Req(name, t), Opt(name, t), Ptr(name, t), Rep(name, t), Lst(name, t),
     OptLst(name, t)}

\* struct { ID int64 `parquet:"id"`; Tags []string `parquet:"tags,list,optional"` }
\* declared Tags first; the tag names sort id (8) before tags (9)
TagsModel ==
    StructT(<<Field(5, SliceT(StringT), 9, <<"list", "optional">>),
              Field(7, Int64T, 8, <<>>)>>)

\* structs of one leaf field
OneLeaf == {StructT(<<f>>) : f \in Variants(1, Int64T)}
\* structs of one leaf field that is not a slice
OneScalar == {StructT(<<f>>) : f \in {Req(1, Int64T), Opt(1, Int64T), Ptr(1, Int64T)}}
\* structs of two leaf fields, declared in descending name order
TwoLeaves ==
    {StructT(<<f, g>>) : f \in {Req(2, Int64T), Ptr(2, Int64T)},
                         g \in {Req(1, Int64T), Opt(1, Int64T)}}
\* two sibling fields of every cardinality
Siblings ==
    {StructT(<<f, g>>) : f \in Variants(2, Int64T), g \in Variants(1, Int64T)}
\* one field of every cardinality around a nested struct
Nested ==
    UNION {{StructT(<<f>>) : f \in Variants(1, s)} : s \in OneScalar \cup TwoLeaves}
\* a slice field inside a struct inside a field of every cardinality
NestedSlices ==
    {StructT(<<f>>) : f \in {Req(1, StructT(<<Rep(1, Int64T)>>)),
                             Opt(1, StructT(<<Lst(1, Int64T)>>)),
                             Ptr(1, StructT(<<OptLst(1, Int64T)>>)),
                             Ptr(1, StructT(<<Rep(1, Int64T)>>)),
                             Rep(1, StructT(<<Rep(1, Int64T)>>)),
                             Lst(1, StructT(<<OptLst(1, Int64T)>>)),
                             OptLst(1, StructT(<<Lst(1, Int64T)>>))}}
\* an embedded struct flattened among the fields, an unexported field, and
\* three levels of nesting
Others ==
    {StructT(<<>>),
     TagsModel,
     StructT(<<Embedded(3, StructT(<<Req(4, Int64T), Ptr(1, Int64T)>>)),
               Rep(2, Int64T)>>),
     StructT(<<Unexported(1, Int64T), Ptr(3, Int64T), Opt(2, StringT)>>),
     StructT(<<Ptr(1, StructT(<<Rep(1, StructT(<<Ptr(2, Int64T),
                                                  Req(1, Int64T)>>))>>))>>)}

Models == OneLeaf \cup Siblings \cup Nested \cup NestedSlices \cup Others

RECURSIVE ValuesOf(_)
RECURSIVE FieldValues(_)
RECURSIVE SeqsOf(_, _)

\* the sequences of exactly n members of S
SeqsOf(S, n) ==
    IF n = 0 THEN {<<>>}
    ELSE {Append(s, x) : s \in SeqsOf(S, n - 1), x \in S}

\* the field tuples of a struct with these fields
FieldValues(fields) ==
    IF fields = <<>> THEN {<<>>}
    ELSE {<<v>> \o rest : v \in ValuesOf(fields[1].typ),
                          rest \in FieldValues(Tail(fields))}

ValuesOf(t) ==
    CASE t.k = "int64" -> {Int64V(n) : n \in LeafValues}
      [] t.k = "string" -> {StringV(n) : n \in LeafValues}
      [] t.k = "ptr" -> {NilPtr} \cup {PtrV(v) : v \in ValuesOf(t.of[1])}
      [] t.k = "slice" ->
             {NilSlice} \cup
             UNION {{SliceV(s) : s \in SeqsOf(ValuesOf(t.of[1]), n)} :
                        n \in 0..MaxLen}
      [] t.k = "struct" -> {StructV(s) : s \in FieldValues(t.fields)}

\* what a caller holds for a schema of type t: a struct, or the nil
\* pointer to one
Arguments(t) == ValuesOf(t) \cup {NilPtr}

(***************************************************************************)
(* The state machine.  typ, schema: the struct type and the schema built   *)
(* from it; arg, failAt: the value and the sink the caller holds;          *)
(* traversed, calls, result: whether Traverse has run, the calls its sink  *)
(* received and the error it returned.                                     *)
(***************************************************************************)
VARIABLES typ, schema, arg, failAt, traversed, calls, result, second, built,
          running

vars == <<typ, schema, arg, failAt, traversed, calls, result, second, built,
          running>>

\* second: a second value of the same type and what a second sink received
\* for it, for comparing two traversals; nothing where only one is held
NoSecond == [value |-> NilPtr, traversed |-> FALSE, calls |-> <<>>]

Init ==
    /\ typ \in Models
    /\ schema = SchemaOf(typ)
    /\ arg \in Arguments(typ)
    /\ failAt \in 0..MaxFail
    /\ traversed = FALSE
    /\ calls = <<>>
    /\ result = 0
    /\ second = NoSecond
    /\ built = "ok"
    /\ running = <<>>

\* err := schema.Traverse(arg, sink), or schema.Traverse(&arg, sink)
Traverse ==
    /\ \E value \in IF arg = NilPtr THEN {arg} ELSE {arg, PtrV(arg)} :
           LET r == SchemaTraverse(schema, value, failAt)
           IN  /\ calls' = r.calls
               /\ result' = r.err
    /\ traversed' = TRUE
    /\ UNCHANGED <<typ, schema, arg, failAt, second, built, running>>

Next == Traverse

Spec == Init /\ [][Next]_vars

RECURSIVE AllExported(_)
\* every field of t, at every depth, is exported
AllExported(t) ==
    /\ \A i \in 1..Len(t.fields) :
           t.fields[i].exported /\ AllExported(t.fields[i].typ)
    /\ \A i \in 1..Len(t.of) : AllExported(t.of[i])

\* two values of one type whose every field is a column, and two sinks
\* that never fail
InitPair ==
    /\ typ \in {t \in Models : AllExported(t)}
    /\ schema = SchemaOf(typ)
    /\ arg \in ValuesOf(typ)
    /\ failAt = 0
    /\ traversed = FALSE
    /\ calls = <<>>
    /\ result = 0
    /\ \E v \in ValuesOf(typ) :
           second = [value |-> v, traversed |-> FALSE, calls |-> <<>>]
    /\ built = "ok"
    /\ running = <<>>

\* schema.Traverse(second.value, secondSink)
TraverseSecond ==
    /\ second' = [second EXCEPT
                     !.traversed = TRUE,
                     !.calls = SchemaTraverse(schema, second.value, failAt).calls]
    /\ UNCHANGED <<typ, schema, arg, failAt, traversed, calls, result, built,
                   running>>

NextPair == Traverse \/ TraverseSecond

SpecPair == InitPair /\ [][NextPair]_vars

\* structs of a leaf field beside a sibling of every cardinality, a slice
\* beside a scalar, and two leaves inside an optional or repeated struct
SiblingModels ==
    {StructT(<<f, g>>) : f \in {Req(2, Int64T), Opt(2, Int64T), Ptr(2, Int64T)},
                         g \in Variants(1, Int64T)}
    \cup {StructT(<<Rep(1, Int64T), g>>) : g \in {Req(2, Int64T), Ptr(2, Int64T)}}
    \cup {StructT(<<f>>) :
              f \in {Opt(1, StructT(<<Req(2, Int64T), Req(1, Int64T)>>)),
                     Opt(1, StructT(<<Ptr(2, Int64T), Rep(1, Int64T)>>)),
                     Ptr(1, StructT(<<Req(2, Int64T), Opt(1, Int64T)>>)),
                     Rep(1, StructT(<<Req(2, Int64T), Opt(1, Int64T)>>))}}

\* two values of one type with sibling fields, and two sinks that never
\* fail
InitSiblings ==
    /\ typ \in SiblingModels
    /\ schema = SchemaOf(typ)
    /\ arg \in ValuesOf(typ)
    /\ failAt = 0
    /\ traversed = FALSE
    /\ calls = <<>>
    /\ result = 0
    /\ \E v \in ValuesOf(typ) :
           second = [value |-> v, traversed |-> FALSE, calls |-> <<>>]
    /\ built = "ok"
    /\ running = <<>>

SpecSiblings == InitSiblings /\ [][NextPair]_vars

(***************************************************************************)
(* Traverse calls side by side: goroutines call Traverse on one Schema,    *)
(* each with its own value and its own sink, and their sink calls          *)
(* interleave in every order.                                              *)
(***************************************************************************)
\* the number of calls that run side by side: the first with a value of
\* its own, the others with a second value, every pair of values taken
NumCalls == 2

\* struct types whose traversals make several sink calls at several levels
SharedModels ==
    {TagsModel,
     StructT(<<Rep(1, StructT(<<Opt(1, Int64T)>>)), Ptr(2, Int64T)>>)}

InitShared ==
    /\ typ \in SharedModels
    /\ schema = SchemaOf(typ)
    /\ arg = NilPtr
    /\ failAt = 0
    /\ traversed = FALSE
    /\ calls = <<>>
    /\ result = 0
    /\ second = NoSecond
    /\ built = "ok"
    /\ running \in {[p \in 1..NumCalls |-> Idle(IF p = 1 THEN v ELSE w)] :
                        v \in Arguments(typ), w \in Arguments(typ)}

\* goroutine p enters schema.Traverse(value, sink)
BeginCall(p) ==
    /\ running[p].pc = "idle"
    /\ running' = [running EXCEPT ![p] = Begin(schema, running[p])]
    /\ UNCHANGED <<typ, schema, arg, failAt, traversed, calls, result, second,
                   built>>

\* goroutine p makes its next sink call
SinkCall(p) ==
    /\ running[p].pc = "running"
    /\ running' = StepCall(running, p)
    /\ UNCHANGED <<typ, schema, arg, failAt, traversed, calls, result, second,
                   built>>

NextShared == \E p \in 1..NumCalls : BeginCall(p) \/ SinkCall(p)

SpecShared == InitShared /\ [][NextShared]_vars

(***************************************************************************)
(* Schema construction on its own: SchemaOf(model) over struct types with  *)
(* every kind of field and tag.  built says whether SchemaOf has not run,  *)
(* returned a schema, or panicked.                                         *)
(***************************************************************************)
\* the longest tag, in options
MaxOptions == 2
\* the longest argument text after the word decimal, in tokens
MaxArgs == 5

\* the field types
FieldTypes ==
    {ScalarT(k) : k \in {"bool", "int", "int8", "int16", "int32", "int64",
                         "uint", "uint8", "uint16", "uint32", "uint64",
                         "uintptr", "float32", "float64", "string", "chan"}}
    \cup {SliceT(Int64T), SliceT(StringT), PtrT(Int64T),
          ArrayT(ScalarT("uint8"), 16), ArrayT(ScalarT("uint8"), 4),
          ArrayT(ScalarT("int8"), 16), StructT(<<Req(1, Int64T)>>)}

\* decimal(0,3), as tokens
DecimalExample == <<"decimal", "(", "0", ",", "3", ")">>

\* the options a tag is made of
OptionTexts ==
    {<<"optional">>, <<"snappy">>, <<"plain">>, <<"delta">>, <<"list">>,
     <<"enum">>, <<"uuid">>, <<"bogus">>, DecimalExample}

RECURSIVE JoinTexts(_)
\* the texts of opts one after the other with commas between
JoinTexts(opts) ==
    IF opts = <<>> THEN <<>>
    ELSE IF Len(opts) = 1 THEN opts[1]
    ELSE opts[1] \o <<",">> \o JoinTexts(Tail(opts))

\* the tags of up to MaxOptions options
OptionTags ==
    UNION {{JoinTexts(o) : o \in SeqsOf(OptionTexts, n)} : n \in 0..MaxOptions}

\* the tags made of the word decimal and up to MaxArgs tokens
ArgTokens == {"(", ")", ",", "0", "x"}
DecimalTags ==
    UNION {{<<"decimal">> \o a : a \in SeqsOf(ArgTokens, n)} : n \in 0..MaxArgs}

\* struct { F T `parquet:"f,tag"` }
OneField(t, tag) == StructT(<<Tagged(1, t, 2, tag)>>)

\* structs of one field of every type under every tag
TagModels ==
    {OneField(t, tag) : t \in FieldTypes, tag \in OptionTags}
    \cup {OneField(t, tag) : t \in {ScalarT("int32"), Int64T, StringT},
                             tag \in DecimalTags}

\* structs of three fields, each renamed by its tag or not, and structs
\* with an embedded struct whose field meets a field of the same name
NameModels ==
    {StructT(<<Tagged(6, Int64T, a, <<>>), Tagged(5, StringT, b, <<>>),
               Tagged(4, PtrT(Int64T), c, <<>>)>>) :
         a \in {0, 4, 7}, b \in {0, 4, 7}, c \in {0, 6, 7}}
    \cup {StructT(<<Embedded(1, StructT(<<Tagged(5, Int64T, a, <<>>),
                                          Tagged(3, Int64T, 0, <<>>)>>)),
                    Tagged(5, StringT, b, <<>>)>>) :
              a \in {0, 4}, b \in {0, 4}}

BuildModels == TagModels \cup NameModels

\* no schema
NoSchema == newSchema(StructNode(<<>>))

RECURSIVE Panics(_)
\* building node ran into a panic: no schema comes out of SchemaOf
Panics(node) ==
    \/ node.kind = "panic"
    \/ \E i \in 1..Len(node.fields) : Panics(node.fields[i].node)
    \/ \E i \in 1..Len(node.elem) : Panics(node.elem[i])

InitBuild ==
    /\ typ \in BuildModels
    /\ schema = NoSchema
    /\ arg = NilPtr
    /\ failAt = 0
    /\ traversed = FALSE
    /\ calls = <<>>
    /\ result = 0
    /\ second = NoSecond
    /\ built = "no"
    /\ running = <<>>

\* schema := SchemaOf(model), or the panic it raises
Build ==
    /\ built = "no"
    /\ IF Panics(structNodeOf(typ))
          THEN built' = "panic" /\ schema' = schema
       ELSE built' = "ok" /\ schema' = SchemaOf(typ)
    /\ UNCHANGED <<typ, arg, failAt, traversed, calls, result, second, running>>

NextBuild == Build

SpecBuild == InitBuild /\ [][NextBuild]_vars

(***************************************************************************)
(* What the schema and the value say, read off them without the compiled   *)
(* plan: the leaf columns of a schema in depth-first ChildNames order, and *)
(* the leaf occurrences of a value in record order.                        *)
(***************************************************************************)
\* 1 when the node itself is optional or repeated; a LIST node holds the
\* repeated group of its elements, one more
OwnLevels(node) ==
    (IF node.card \in {"optional", "repeated"} THEN 1 ELSE 0)
    + (IF node.kind = "list" THEN 1 ELSE 0)
OwnRepeated(node) ==
    IF node.card = "repeated" \/ node.kind = "list" THEN 1 ELSE 0

RECURSIVE LeafDefs(_, _)
RECURSIVE ChildLeafDefs(_, _, _)
\* for each leaf below node, in column order, the number of optional or
\* repeated nodes on its path (above of them lie above node)
LeafDefs(node, above) ==
    CASE node.kind = "leaf" -> <<above + OwnLevels(node)>>
      [] node.kind = "list" ->
             LeafDefs(Required(ListElement(node)), above + OwnLevels(node))
      [] OTHER -> ChildLeafDefs(node, above + OwnLevels(node), 1)
ChildLeafDefs(node, above, j) ==
    IF j > Len(node.fields) THEN <<>>
    ELSE LeafDefs(node.fields[j].node, above) \o ChildLeafDefs(node, above, j + 1)

\* the number of leaf columns below node
NumLeaves(node) == Len(LeafDefs(node, 0))
\* the most definitionLevel a leaf column can carry
MaxDefinitionLevel(columnIndex) == LeafDefs(schema.root, 0)[columnIndex + 1]

\* one leaf occurrence: its column, how it comes about (a "value"; "absent"
\* below an optional node that is nil or zero; "nil" below a nil slice;
\* "empty" below a slice of no elements; "nilroot" below a nil argument),
\* base: the optional or repeated nodes found present above the field that
\* is absent, nil or empty (above the leaf, for a value), idx and lens: the
\* position of the element it lies in, and the length, of every populated
\* repeated field above it, and whether the leaf is optional / the absent
\* node is the leaf itself
Occurrence(columnIndex, case, base, idx, lens, optionalLeaf, atLeaf) ==
    [columnIndex |-> columnIndex, case |-> case, base |-> base, idx |-> idx,
     lens |-> lens, optionalLeaf |-> optionalLeaf, atLeaf |-> atLeaf]

\* one occurrence for every leaf column below node
Placeholders(node, case, base, idx, lens, col) ==
    [i \in 1..NumLeaves(node) |->
        Occurrence(col + i - 1, case, base, idx, lens,
                   node.kind = "leaf" /\ case = "absent",
                   node.kind = "leaf" /\ case = "absent")]

RECURSIVE Occurrences(_, _, _, _, _, _)
RECURSIVE PresentOccurrences(_, _, _, _, _, _, _, _)
RECURSIVE ElementOccurrences(_, _, _, _, _, _, _)
RECURSIVE ChildOccurrences(_, _, _, _, _, _, _)

\* the occurrences below node for value v, columns from col on
Occurrences(node, v, base, idx, lens, col) ==
    IF node.card = "optional"
       THEN IF IsZero(v)
               THEN Placeholders(node, "absent", base, idx, lens, col)
            ELSE PresentOccurrences(Required(node),
                     IF v.k = "ptr" THEN Elem(v) ELSE v,
                     base + 1, base, idx, lens, col, TRUE)
    ELSE PresentOccurrences(node, v, base, base, idx, lens, col, FALSE)

\* the same below a node that is present; fieldBase counts above the
\* optional wrapper, if the field has one
PresentOccurrences(node, v, base, fieldBase, idx, lens, col, opt) ==
    IF node.kind = "list" \/ node.card = "repeated"
       THEN LET elem == IF node.kind = "list" THEN Required(ListElement(node))
                        ELSE Required(node)
            IN  IF v.nil THEN Placeholders(elem, "nil", base, idx, lens, col)
                ELSE IF LenOf(v) = 0
                   THEN Placeholders(elem, "empty", fieldBase, idx, lens, col)
                ELSE ElementOccurrences(elem, v, base + 1, idx, lens, col, 1)
    ELSE IF node.kind = "leaf"
       THEN <<Occurrence(col, "value", base, idx, lens, opt, FALSE)>>
    ELSE ChildOccurrences(node, v, base, idx, lens, col, 1)

ElementOccurrences(elem, v, base, idx, lens, col, i) ==
    IF i > LenOf(v) THEN <<>>
    ELSE Occurrences(elem, v.e[i], base, Append(idx, i),
                     Append(lens, LenOf(v)), col)
         \o ElementOccurrences(elem, v, base, idx, lens, col, i + 1)

ChildOccurrences(node, v, base, idx, lens, col, j) ==
    IF j > Len(node.fields) THEN <<>>
    ELSE Occurrences(node.fields[j].node,
                     FieldByIndex(v, node.fields[j].index),
                     base, idx, lens, col)
         \o ChildOccurrences(node, v, base, idx, lens,
                             col + NumLeaves(node.fields[j].node), j + 1)

\* the leaf occurrences of the argument held, in record order
Expected ==
    IF arg = NilPtr
       THEN Placeholders(schema.root, "nilroot", 0, <<>>, <<>>, 0)
    ELSE Occurrences(schema.root, arg, 0, <<>>, <<>>, 0)

\* the calls line up with the occurrences: one call per occurrence, up to
\* the call at which the sink failed
Aligned ==
    LET e == Expected IN
    /\ Len(calls) <= Len(e)
    /\ result = 0 => Len(calls) = Len(e)
    /\ \A i \in 1..Len(calls) : calls[i].columnIndex = e[i].columnIndex

(***************************************************************************)
(* Definition levels.                                                      *)
(***************************************************************************)
RECURSIVE FullyPopulated(_, _)
\* no optional node below is nil or zero, no slice below is nil or empty
FullyPopulated(node, v) ==
    IF node.card = "optional"
       THEN /\ ~IsZero(v)
            /\ FullyPopulated(Required(node), IF v.k = "ptr" THEN Elem(v) ELSE v)
    ELSE IF node.kind = "list" \/ node.card = "repeated"
       THEN /\ ~v.nil
            /\ LenOf(v) >= 1
            /\ \A i \in 1..LenOf(v) :
                   FullyPopulated(IF node.kind = "list"
                                     THEN Required(ListElement(node))
                                  ELSE Required(node), v.e[i])
    ELSE IF node.kind = "leaf" THEN TRUE
    ELSE \A j \in 1..Len(node.fields) :
             FullyPopulated(node.fields[j].node,
                            FieldByIndex(v, node.fields[j].index))

\* C1: for a fully populated value, every entry the sink receives carries a
\* definitionLevel equal to the number of optional or repeated nodes on the
\* schema path of its leaf.
C1_FullyPopulatedLevels ==
    (traversed /\ arg # NilPtr /\ FullyPopulated(schema.root, arg)) =>
        \A i \in 1..Len(calls) :
            /\ calls[i].definitionLevel = MaxDefinitionLevel(calls[i].columnIndex)
            /\ ~calls[i].null

C1_Witness ==
    /\ traversed
    /\ arg # NilPtr
    /\ FullyPopulated(schema.root, arg)
    /\ result = 0
    /\ Len(calls) >= 2
    /\ \E i \in 1..Len(calls) : calls[i].definitionLevel = 3

\* C2: an optional leaf holding the zero value of its type, or a nil
\* pointer, yields one null entry whose definitionLevel is one less than
\* the level the leaf carries when it holds a value; a leaf holding a
\* non-zero value yields a non-null entry at that level.
C2_OptionalLeafZero ==
    traversed =>
        LET e == Expected IN
        /\ Aligned
        /\ \A i \in 1..Len(calls) :
               /\ e[i].atLeaf =>
                      /\ calls[i].null
                      /\ calls[i].definitionLevel =
                             MaxDefinitionLevel(calls[i].columnIndex) - 1
               /\ (e[i].optionalLeaf /\ e[i].case = "value") =>
                      /\ ~calls[i].null
                      /\ calls[i].definitionLevel =
                             MaxDefinitionLevel(calls[i].columnIndex)

C2_Witness ==
    /\ traversed
    /\ result = 0
    /\ \E i \in 1..Len(calls) :
           /\ Expected[i].atLeaf
           /\ calls[i].null
           /\ calls[i].definitionLevel = 1
    /\ \E i \in 1..Len(calls) :
           /\ Expected[i].optionalLeaf
           /\ Expected[i].case = "value"
           /\ calls[i].val = 0

\* C6: no entry carries a definitionLevel above the number of optional or
\* repeated nodes on the path of its leaf, and a leaf below a node that is
\* absent (a nil pointer, a zero optional, a nil slice, a nil argument) is
\* emitted null with the number of present optional or repeated ancestors
\* of that node as its definitionLevel.
C6_DefinitionLevelBound ==
    traversed =>
        LET e == Expected IN
        /\ Aligned
        /\ \A i \in 1..Len(calls) :
               /\ calls[i].definitionLevel
                      <= MaxDefinitionLevel(calls[i].columnIndex)
               /\ e[i].case \in {"absent", "nil", "nilroot"} =>
                      /\ calls[i].null
                      /\ calls[i].definitionLevel = e[i].base

C6_Witness ==
    /\ traversed
    /\ \E i \in 1..Len(calls) :
           /\ Expected[i].case = "nil"
           /\ Expected[i].base = 1
           /\ MaxDefinitionLevel(calls[i].columnIndex) = 3
           /\ calls[i].null
           /\ calls[i].definitionLevel = 1

(***************************************************************************)
(* Repetition levels and empty sequences.                                  *)
(***************************************************************************)
RECURSIVE LeafReps(_, _)
RECURSIVE ChildLeafReps(_, _, _)
\* for each leaf below node, in column order, the number of repeated nodes
\* on its path
LeafReps(node, above) ==
    CASE node.kind = "leaf" -> <<above + OwnRepeated(node)>>
      [] node.kind = "list" ->
             LeafReps(Required(ListElement(node)), above + OwnRepeated(node))
      [] OTHER -> ChildLeafReps(node, above + OwnRepeated(node), 1)
ChildLeafReps(node, above, j) ==
    IF j > Len(node.fields) THEN <<>>
    ELSE LeafReps(node.fields[j].node, above) \o ChildLeafReps(node, above, j + 1)
MaxRepetitionLevel(columnIndex) == LeafReps(schema.root, 0)[columnIndex + 1]

\* the occurrences of e on the column of occurrence i that lie below the
\* same occurrence of its j-th repeated ancestor
Below(e, i, j) ==
    {k \in 1..Len(e) :
        /\ e[k].columnIndex = e[i].columnIndex
        /\ Len(e[k].idx) >= j
        /\ SubSeq(e[k].idx, 1, j - 1) = SubSeq(e[i].idx, 1, j - 1)}

Greatest(S) == CHOOSE x \in S : \A y \in S : y <= x

\* C3, as claimed: below every repeated field of k >= 1 elements each leaf
\* column gets exactly k calls, the first at repetitionLevel 0 and each
\* later one at the depth of that field, also when the field is nested in
\* another repeated field or holds one.
C3_Original ==
    (traversed /\ result = 0) =>
        LET e == Expected IN
        /\ Aligned
        /\ \A i \in 1..Len(calls) : \A j \in 1..Len(e[i].idx) :
               /\ Cardinality(Below(e, i, j)) = e[i].lens[j]
               /\ calls[i].repetitionLevel =
                      IF \A k \in Below(e, i, j) : i <= k THEN 0 ELSE j

\* C3, amended: below a repeated field of k >= 1 elements with no further
\* repeated field between it and the leaf, each leaf column gets exactly k
\* calls; every call carries as repetitionLevel the depth of the innermost
\* repeated ancestor that is past its first element, 0 when there is none
\* (so the first call of a field inherits the level of its context, and
\* each later one carries the depth of the field).
C3_RepetitionLevels ==
    traversed =>
        LET e == Expected IN
        /\ Aligned
        /\ \A i \in 1..Len(calls) :
               LET idx == e[i].idx
                   n == Len(idx)
               IN  /\ calls[i].repetitionLevel =
                          Greatest({0} \cup {j \in 1..n : idx[j] > 1})
                   /\ (result = 0 /\ n >= 1
                       /\ n = MaxRepetitionLevel(calls[i].columnIndex)) =>
                          Cardinality(Below(e, i, n)) = e[i].lens[n]

C3_Witness ==
    /\ traversed
    /\ result = 0
    /\ \E i \in 1..Len(calls) :
           /\ Expected[i].idx = <<2, 1>>
           /\ calls[i].repetitionLevel = 1
    /\ \E i \in 1..Len(calls) :
           /\ Expected[i].idx = <<1, 2>>
           /\ Expected[i].lens = <<2, 2>>
           /\ calls[i].repetitionLevel = 2
           /\ Cardinality(Below(Expected, i, 2)) = 2

\* C4, as claimed: a slice that is not nil and has no element yields one
\* null placeholder per leaf column below it, at a definitionLevel one
\* above that of the placeholder of the same field holding a nil slice
\* (which is the number of present optional or repeated nodes above the
\* field), with or without an optional wrapper or the list type.
C4_Original ==
    (traversed /\ result = 0) =>
        LET e == Expected IN
        /\ Aligned
        /\ \A i \in 1..Len(calls) :
               /\ e[i].case = "empty" =>
                      /\ calls[i].null
                      /\ calls[i].definitionLevel = e[i].base + 1
               /\ e[i].case \in {"nil", "absent"} =>
                      /\ calls[i].null
                      /\ calls[i].definitionLevel = e[i].base

\* the calls on one column
OnColumn(columnIndex) ==
    LET on(c) == c.columnIndex = columnIndex
    IN  SelectSeq(calls, on)

\* C5, as claimed: for { id: required int64, tags: optional list of
\* string } the tags.element column gets one null entry at definitionLevel
\* 0 for nil tags, one null entry at definitionLevel 1 for empty tags, and
\* for k elements k entries at definitionLevel 2, repetitionLevel 0 then 1.
C5_Original ==
    (typ = TagsModel /\ traversed /\ result = 0 /\ arg # NilPtr) =>
        LET tags == arg.e[1]
            got == OnColumn(1)
        IN  /\ tags.nil =>
                   /\ Len(got) = 1
                   /\ got[1].null
                   /\ got[1].definitionLevel = 0
            /\ (~tags.nil /\ LenOf(tags) = 0) =>
                   /\ Len(got) = 1
                   /\ got[1].null
                   /\ got[1].definitionLevel = 1
            /\ LenOf(tags) >= 1 =>
                   /\ Len(got) = LenOf(tags)
                   /\ \A i \in 1..Len(got) :
                          /\ ~got[i].null
                          /\ got[i].definitionLevel = 2
                          /\ got[i].repetitionLevel = IF i = 1 THEN 0 ELSE 1

(***************************************************************************)
(* Column order, column indices and sink errors.                           *)
(***************************************************************************)
\* C7, as claimed: the column index of a sink call is never lower than
\* that of the call before it.
C7_Original ==
    traversed =>
        \A i \in 2..Len(calls) :
            calls[i].columnIndex >= calls[i - 1].columnIndex

\* C7, amended: the column index of a sink call is lower than that of the
\* call before it only when the call starts a later element of a repeated
\* field (its repetitionLevel is 1 or more); a call at repetitionLevel 0
\* that is not the first is on the column after that of the call before it.
C7_ColumnOrder ==
    traversed =>
        \A i \in 2..Len(calls) :
            /\ calls[i].columnIndex < calls[i - 1].columnIndex =>
                   calls[i].repetitionLevel >= 1
            /\ calls[i].repetitionLevel = 0 =>
                   calls[i].columnIndex = calls[i - 1].columnIndex + 1

C7_Witness ==
    /\ traversed
    /\ \E i \in 2..Len(calls) :
           /\ calls[i].columnIndex = 0
           /\ calls[i - 1].columnIndex = 1
           /\ calls[i].repetitionLevel = 1
    /\ \E i \in 2..Len(calls) :
           /\ calls[i].columnIndex = 1
           /\ calls[i].repetitionLevel = 0

RECURSIVE LeafColumns(_)
RECURSIVE FuncsLeafColumns(_, _)
\* the column indices the leaf closures of a plan captured, in plan order
LeafColumns(f) ==
    IF f.op = "leaf" THEN <<f.columnIndex>> ELSE FuncsLeafColumns(f, 1)
FuncsLeafColumns(f, j) ==
    IF j > Len(f.funcs) THEN <<>>
    ELSE LeafColumns(f.funcs[j]) \o FuncsLeafColumns(f, j + 1)

RECURSIVE SortedNames(_)
\* the names of every group below node ascend
SortedNames(node) ==
    /\ \A j \in 1..Len(node.fields) :
           /\ j > 1 => node.fields[j - 1].name < node.fields[j].name
           /\ SortedNames(node.fields[j].node)
    /\ \A j \in 1..Len(node.elem) : SortedNames(node.elem[j])

\* C8: the leaves of a schema of N leaf columns hold the column indices
\* 0..N-1, one each, in depth-first order along the ascending ChildNames of
\* every group, and every sink call carries the index of its leaf.
C8_ColumnIndices ==
    /\ LeafColumns(schema.traverse) = [i \in 1..NumLeaves(schema.root) |-> i - 1]
    /\ SortedNames(schema.root)
    /\ traversed => Aligned

C8_Witness ==
    /\ traversed
    /\ result = 0
    /\ NumLeaves(schema.root) = 3
    /\ typ.fields[1].anonymous
    /\ \E i \in 1..Len(calls) : calls[i].columnIndex = 2 /\ calls[i].val = 1

\* C9: once a sink call returns an error the sink is not called again and
\* Traverse returns that error; the calls made before it stand, and without
\* an error every occurrence is delivered and Traverse returns nil.
C9_FailFast ==
    traversed =>
        LET e == Expected IN
        /\ Aligned
        /\ \A i \in 1..Len(calls) :
               calls[i].err # 0 => (i = Len(calls) /\ result = calls[i].err)
        /\ (\A i \in 1..Len(calls) : calls[i].err = 0) => result = 0
        /\ failAt \in 1..Len(e) => Len(calls) = failAt

C9_Witness ==
    /\ traversed
    /\ result = 2
    /\ Len(calls) = 2
    /\ calls[2].err = 2
    /\ calls[2].repetitionLevel = 1
    /\ Len(Expected) >= 4

(***************************************************************************)
(* Two traversals compared.                                                *)
(***************************************************************************)
\* C10, as claimed: two values of one schema that differ in a field never
\* yield the same stream of (column, value, repetitionLevel,
\* definitionLevel) entries.
C10_Original ==
    (traversed /\ second.traversed /\ arg # second.value) =>
        calls # second.calls

(***************************************************************************)
(* The nil argument and the record boundary.                               *)
(***************************************************************************)
\* C15: Traverse of a nil pointer calls the sink once per leaf column, in
\* column order 0..N-1, each time with a null value at repetitionLevel 0
\* and definitionLevel 0, up to the call at which the sink fails.
C15_NilPointer ==
    (traversed /\ arg = NilPtr) =>
        LET n == NumLeaves(schema.root)
        IN  /\ Len(calls) = IF failAt \in 1..n THEN failAt ELSE n
            /\ \A i \in 1..Len(calls) :
                   /\ calls[i].columnIndex = i - 1
                   /\ calls[i].null
                   /\ calls[i].repetitionLevel = 0
                   /\ calls[i].definitionLevel = 0

C15_Witness ==
    /\ traversed
    /\ arg = NilPtr
    /\ result = 0
    /\ Len(calls) = 3
    /\ \E j \in 1..Len(schema.root.fields) :
           schema.root.fields[j].node.card = "repeated"
    /\ \E j \in 1..Len(schema.root.fields) :
           schema.root.fields[j].node.card = "optional"

\* C18: when Traverse ends without a sink error, every leaf column has
\* received a call, the first call on each column is at repetitionLevel 0,
\* and every later call on it is at a repetitionLevel from 1 to the number
\* of repeated nodes on the path of its leaf.
C18_RecordBoundary ==
    (traversed /\ result = 0) =>
        \A c \in 0..(NumLeaves(schema.root) - 1) :
            LET got == OnColumn(c)
            IN  /\ Len(got) >= 1
                /\ got[1].repetitionLevel = 0
                /\ \A i \in 2..Len(got) :
                       /\ got[i].repetitionLevel >= 1
                       /\ got[i].repetitionLevel <= MaxRepetitionLevel(c)

C18_Witness ==
    /\ traversed
    /\ result = 0
    /\ NumLeaves(schema.root) = 1
    /\ MaxRepetitionLevel(0) = 2
    /\ OnColumn(0)[1].repetitionLevel = 0
    /\ \E i \in 2..Len(OnColumn(0)) : OnColumn(0)[i].repetitionLevel = 1
    /\ \E i \in 2..Len(OnColumn(0)) : OnColumn(0)[i].repetitionLevel = 2

(***************************************************************************)
(* Schema construction.                                                    *)
(***************************************************************************)
\* the one field of the struct type held, and the node built for it
TheField == typ.fields[1]
TheNode == schema.root.fields[1].node

\* a is "(" digits "," digits ")"
IsTwoIntegers(a) ==
    /\ Len(a) >= 5
    /\ a[1] = "("
    /\ a[Len(a)] = ")"
    /\ \E i \in 3..(Len(a) - 2) :
           /\ a[i] = ","
           /\ \A j \in (2..(Len(a) - 1)) \ {i} : a[j] \in Digits

\* C11, as claimed: a tag holding the option decimal and its arguments on
\* one field builds a schema exactly when the field is an int32 or an int64
\* and the arguments are two integers, and the field's node is then the
\* decimal logical type of that scale and precision on the base type of
\* the field's width.
C11_Original ==
    (built # "no" /\ typ \in {OneField(t, tag) :
                                 t \in {ScalarT("int32"), Int64T, StringT},
                                 tag \in DecimalTags}) =>
        LET args == Tail(TheField.tag)
            accepted == TheField.typ.k \in {"int32", "int64"} /\ IsTwoIntegers(args)
        IN  /\ built = "ok" <=> accepted
            /\ built = "ok" =>
                   /\ TheNode.logical.name = "decimal"
                   /\ TheNode.typ = TheField.typ.k

\* C12, as claimed: no schema is built whose group holds two children of
\* the same name; SchemaOf fails when two flattened fields resolve to one
\* name.
C12_Original ==
    built = "ok" =>
        LET names == ChildNames(schema.root)
        IN  \A i, j \in 1..Len(names) : i # j => names[i] # names[j]

\* the options that declare a logical type
LogicalOptions == {<<"list">>, <<"enum">>, <<"uuid">>, DecimalExample}

\* SchemaOf builds a schema for a field of type t under that tag
Accepted(t, tag) == ~Panics(structNodeOf(OneField(t, tag)))

\* C13, as claimed: a tag that declares a logical-type option twice, or two
\* of them, on a field type that accepts each of the two alone, never
\* yields a schema: SchemaOf fails.
C13_Original ==
    \A t \in FieldTypes : \A o1, o2 \in LogicalOptions :
        (/\ built # "no"
         /\ typ = OneField(t, JoinTexts(<<o1, o2>>))
         /\ Accepted(t, o1)
         /\ Accepted(t, o2)) => built = "panic"

\* C16, as claimed: for the root of every schema built, NumChildren is the
\* length of ChildNames, ChildNames ascends, and ChildByName of the name at
\* position i is the child at position i, the one ChildByIndex(i) returns.
C16_Original ==
    built = "ok" =>
        LET root == schema.root
            names == ChildNames(root)
        IN  /\ NumChildren(root) = Len(names)
            /\ \A i, j \in 1..Len(names) : i < j => names[i] <= names[j]
            /\ \A i \in 1..Len(names) :
                   /\ indexOf(root, names[i]) = i - 1
                   /\ ChildByName(root, names[i]) = ChildByIndex(root, i - 1)

\* the integer kinds of Go
IntegerKinds ==
    {"int", "int8", "int16", "int32", "int64",
     "uint", "uint8", "uint16", "uint32", "uint64", "uintptr"}

\* C17, as claimed: a field tagged delta builds a schema, with the delta
\* encoding on the field's node, exactly when the field is of an integer
\* kind of any width; on any other field SchemaOf fails.
C17_Original ==
    (built # "no" /\ typ \in {OneField(t, <<"delta">>) : t \in FieldTypes}) =>
        /\ built = "ok" <=> TheField.typ.k \in IntegerKinds
        /\ built = "ok" => TheNode.encodings = <<"delta">>

\* C17, amended: a field tagged delta builds a schema, with the delta
\* encoding on the field's node, exactly when the field's kind is int,
\* int32, int64, uint, uint32 or uint64; on a field of any other kind,
\* int8, int16, uint8, uint16 and uintptr included, SchemaOf fails.
C17_DeltaKinds ==
    (built # "no" /\ typ \in {OneField(t, <<"delta">>) : t \in FieldTypes}) =>
        /\ built = "ok" <=>
               TheField.typ.k \in {"int", "int32", "int64",
                                   "uint", "uint32", "uint64"}
        /\ built = "ok" => TheNode.encodings = <<"delta">>

C17_Witness ==
    /\ built = "ok"
    /\ running = <<>>
    /\ typ = OneField(ScalarT("uint32"), <<"delta">>)
    /\ TheNode.encodings = <<"delta">>
    /\ TheNode.logical.name = "uint"

(***************************************************************************)
(* Siblings.                                                               *)
(***************************************************************************)
RECURSIVE LeavesBefore(_, _)
\* the number of leaf columns below the first j children of node
LeavesBefore(node, j) ==
    IF j = 0 THEN 0
    ELSE LeavesBefore(node, j - 1) + NumLeaves(node.fields[j].node)

\* the levels of the calls of cs on column c, in order
LevelsOn(cs, c) ==
    LET on(e) == e.columnIndex = c
        got == SelectSeq(cs, on)
    IN  [i \in 1..Len(got) |->
            <<got[i].repetitionLevel, got[i].definitionLevel>>]

RECURSIVE PathValue(_, _, _, _, _)
\* what v holds along the path from node (whose leaves start at column
\* col) to the leaf of column c: of a struct only the field on the path,
\* of a slice every element, cut to the path.  With zeroTest, a struct
\* held by value in an optional field also says whether it is all zero.
PathValue(node, v, c, col, zeroTest) ==
    IF node.card = "optional"
       THEN IF v.k = "ptr"
               THEN IF v.nil THEN NilPtr
                    ELSE PtrV(PathValue(Required(node), Elem(v), c, col, zeroTest))
            ELSE LET inner == PathValue(Required(node), v, c, col, zeroTest)
                 IN  IF zeroTest /\ v.k = "struct"
                        THEN [inner EXCEPT !.nil = IsZero(v)]
                     ELSE inner
    ELSE IF node.kind = "list" \/ node.card = "repeated"
       THEN LET elem == IF node.kind = "list" THEN Required(ListElement(node))
                        ELSE Required(node)
            IN  IF v.nil THEN NilSlice
                ELSE SliceV([i \in 1..LenOf(v) |->
                                PathValue(elem, v.e[i], c, col, zeroTest)])
    ELSE IF node.kind = "leaf" THEN v
    ELSE LET j == CHOOSE k \in 1..Len(node.fields) :
                      /\ col + LeavesBefore(node, k - 1) <= c
                      /\ c < col + LeavesBefore(node, k)
         IN  StructV(<<PathValue(node.fields[j].node,
                                 FieldByIndex(v, node.fields[j].index),
                                 c, col + LeavesBefore(node, j - 1), zeroTest)>>)

\* C19, as claimed: two values that hold the same along the path of a leaf
\* (whatever its siblings hold) yield the same levels on its column.
C19_Original ==
    (traversed /\ second.traversed) =>
        \A c \in 0..(NumLeaves(schema.root) - 1) :
            PathValue(schema.root, arg, c, 0, FALSE)
                = PathValue(schema.root, second.value, c, 0, FALSE)
            => LevelsOn(calls, c) = LevelsOn(second.calls, c)

\* C19, amended: two values that hold the same along the path of a leaf,
\* and whose structs held by value in an optional field on that path are
\* all-zero in both or in neither, yield the same levels on its column.
C19_SiblingIndependence ==
    (traversed /\ second.traversed) =>
        \A c \in 0..(NumLeaves(schema.root) - 1) :
            PathValue(schema.root, arg, c, 0, TRUE)
                = PathValue(schema.root, second.value, c, 0, TRUE)
            => LevelsOn(calls, c) = LevelsOn(second.calls, c)

C19_Witness ==
    /\ traversed
    /\ second.traversed
    /\ arg # second.value
    /\ NumLeaves(schema.root) = 2
    /\ PathValue(schema.root, arg, 1, 0, TRUE)
           = PathValue(schema.root, second.value, 1, 0, TRUE)
    /\ LevelsOn(calls, 0) # LevelsOn(second.calls, 0)
    /\ Len(LevelsOn(calls, 0)) = 2
    /\ LevelsOn(calls, 1) = <<<<0, 1>>>>
    /\ LevelsOn(second.calls, 1) = <<<<0, 1>>>>

(***************************************************************************)
(* Calls side by side.                                                     *)
(***************************************************************************)
\* the calls one Traverse of value makes when it runs alone
Alone(value) == SchemaTraverse(schema, value, 0)

\* C14: while Traverse calls on one Schema run side by side, in every
\* order of their sink calls, the plan stays the one compiled from the
\* type, the sink of each call has received the first entries of what
\* that call delivers alone, and all of them, with the same result, once
\* the call has returned.
C14_SideBySide ==
    /\ schema = SchemaOf(typ)
    /\ \A p \in DOMAIN running :
           LET call == running[p]
               alone == Alone(call.value)
           IN  /\ Len(call.calls) <= Len(alone.calls)
               /\ call.calls = SubSeq(alone.calls, 1, Len(call.calls))
               /\ call.pc = "done" =>
                      /\ call.calls = alone.calls
                      /\ call.result = alone.err

C14_Witness ==
    /\ Len(running) = 2
    /\ running[1].value # running[2].value
    /\ running[1].pc = "running"
    /\ running[2].pc = "running"
    /\ Len(running[1].calls) = 2
    /\ Len(running[2].calls) = 1
    /\ running[1].stack[Len(running[1].stack)].levels
           # running[2].stack[Len(running[2].stack)].levels

====
